---- MODULE Spec2Model ----
(***************************************************************************)
(* TaskWhiz (src/app.py): one press of "Generate Graph and Allocate Tasks". *)
(* The sidebar values are the inputs; the handler generates a graph,        *)
(* colours it greedily, orders the tasks by priority, computes start times, *)
(* builds the Gantt rows, draws one bar per task, reports overdue tasks and *)
(* exports the rows.                                                        *)
(*                                                                          *)
(* Python lists are sequences: the list element l[i] is l[i + 1] here.      *)
(* Python dicts keyed by task are functions on 0 .. n-1.                    *)
(***************************************************************************)
EXTENDS Integers, Sequences, FiniteSets, TLC

\* ---- bounds of the model ----
MaxN == 3
MaxColors == 2

\* ---- input domains ----
\* number of tasks; 0 is the value generate_graph rejects
NodeCounts == 0 .. MaxN
\* graph density in percent; -1 and 101 are the values generate_graph rejects
ProbValues == {-1, 50, 101}

\* sampled ends of the sliders of lines 72, 73 and 75
DurationValues == {1, 2}
DeadlineValues == {2, 4}
PriorityValues == {1, 2}

Tasks(n) == 0 .. (n - 1)

VARIABLES
    n_nodes, prob, n_colors,
    task_duration, task_deadlines, task_descriptions, task_priorities,
    pc, G, adj_matrix,
    colors, node, assigned_colors,
    color_map, node_colors, sorted_tasks,
    start_times, pos,
    gantt_data, fig, overdue_tasks, csv, errors

vars == << n_nodes, prob, n_colors,
           task_duration, task_deadlines, task_descriptions, task_priorities,
           pc, G, adj_matrix,
           colors, node, assigned_colors,
           color_map, node_colors, sorted_tasks,
           start_times, pos,
           gantt_data, fig, overdue_tasks, csv, errors >>

\* ---- generate_graph ----
NodesInvalidBelowZero(n) == n < 0

NodesInvalid(n) == n < 1

ProbInvalid(p) == p < 0 \/ p > 100

\* the unordered pairs an undirected simple graph on n nodes may join
Pairs(n) == { e \in Tasks(n) \X Tasks(n) : e[1] < e[2] }

\* nx.to_numpy_array of an undirected simple graph: symmetric, zero diagonal
AdjOf(n, E) ==
    [ i \in Tasks(n) |-> [ j \in Tasks(n) |->
        IF << i, j >> \in E \/ << j, i >> \in E THEN 1 ELSE 0 ] ]

\* np.where(adj_matrix[t] == 1)[0]
Where(adj, t) == { j \in DOMAIN adj[t] : adj[t][j] = 1 }

\* ---- greedy_coloring ----
Uncolored == -1

\* [-1] * n_nodes
AllUncolored(n) == [ i \in 1 .. n |-> Uncolored ]

NeighborColorsZero(adj, cols, nd) ==
    { cols[nb + 1] : nb \in { x \in Where(adj, nd) : cols[x + 1] # 0 } }

NeighborColors(adj, cols, nd) ==
    { cols[nb + 1] : nb \in { x \in Where(adj, nd) : cols[x + 1] # Uncolored } }

RECURSIVE WhileIn(_, _)
WhileIn(color, used) ==
    IF color \in used THEN WhileIn(color + 1, used) ELSE color

FirstColor == 0

PickColorFromOne(used) == WhileIn(1, used)

PickColorAboveAll(used) ==
    IF used = {} THEN 0
    ELSE (CHOOSE m \in used : \A u \in used : u <= m) + 1

PickColor(used) == WhileIn(FirstColor, used)

\* ---- main: colour map and priority order ----
\* generate_color_map: one palette entry per resource, keyed 0 .. n_colors-1
\* (the hex string of entry i is written i)
GenerateColorMap(k) == [ i \in 0 .. (k - 1) |-> i ]

FoldKey(color, k) == color % k

RECURSIVE InsertByKey(_, _, _)
InsertByKey(s, x, key) ==
    IF s = << >> THEN << x >>
    ELSE IF key[Head(s)] <= key[x]
         THEN << Head(s) >> \o InsertByKey(Tail(s), x, key)
         ELSE << x >> \o s

RECURSIVE InsertByKeyDesc(_, _, _)
InsertByKeyDesc(s, x, key) ==
    IF s = << >> THEN << x >>
    ELSE IF key[Head(s)] >= key[x]
         THEN << Head(s) >> \o InsertByKeyDesc(Tail(s), x, key)
         ELSE << x >> \o s

RECURSIVE SortedDesc(_, _)
SortedDesc(n, key) ==
    IF n <= 0 THEN << >> ELSE InsertByKeyDesc(SortedDesc(n - 1, key), n - 1, key)

\* sorted(range(n), key=...): Python's sort is stable
RECURSIVE Sorted(_, _)
Sorted(n, key) ==
    IF n <= 0 THEN << >> ELSE InsertByKey(Sorted(n - 1, key), n - 1, key)

\* ---- main: start times ----
InitialStart == 0

\* max(...) over the dependents in increasing index order
RECURSIVE MaxFinish(_, _, _, _)
MaxFinish(deps, st, dur, best) ==
    IF deps = {} THEN best
    ELSE LET d == CHOOSE x \in deps : \A y \in deps : x <= y
             v == st[d] + dur[d]
         IN MaxFinish(deps \ {d}, st, dur, IF v > best THEN v ELSE best)

StartOfNoDuration(deps, st, dur) ==
    LET d0 == CHOOSE x \in deps : \A y \in deps : x <= y
    IN MaxFinish(deps \ {d0}, st, [ t \in DOMAIN dur |-> 0 ], st[d0])

StartOfFirstOnly(deps, st, dur) ==
    LET d0 == CHOOSE x \in deps : \A y \in deps : x <= y
    IN st[d0] + dur[d0]

\* the value line 130 assigns (deps is non-empty there)
StartOf(deps, st, dur) ==
    LET d0 == CHOOSE x \in deps : \A y \in deps : x <= y
    IN MaxFinish(deps \ {d0}, st, dur, st[d0] + dur[d0])

\* ---- main: Gantt rows, bars, overdue list, export ----
GanttRow(task, desc, st, dur, asg) ==
    [ Task |-> desc[task],
      Start |-> st[task],
      Finish |-> st[task] + dur[task],
      Resource |-> asg[task + 1] + 1 ]

Bar(row, shade) ==
    [ x |-> row.Finish - row.Start,
      y |-> row.Task,
      base |-> row.Start,
      name |-> row.Resource,
      color |-> shade ]

\* the label f"Task {task + 1}" is written task + 1
OverdueLabel(task) == task + 1

IsOverdue(task, st, dur, dl) == st[task] + dur[task] > dl[task]

Overdue(order, st, dur, dl) ==
    SelectSeq(order, LAMBDA t : IsOverdue(t, st, dur, dl))

CsvHeader == << "Task", "Start", "Finish", "Resource" >>

ToCsv(rows) ==
    [ header |-> CsvHeader,
      rows |-> [ i \in 1 .. Len(rows) |->
                  << rows[i].Task, rows[i].Start, rows[i].Finish, rows[i].Resource >> ] ]

NoCsv == [ header |-> << >>, rows |-> << >> ]

\* ---- messages passed to st.error ----
MsgNodes == "Number of nodes must be at least 1!"
MsgDensity == "Graph density must be between 0 and 1!"
MsgFailed == "Failed to generate the graph. Please check the parameters."
MsgAllocation == "Error in task allocation"
MsgOverdue == "The following tasks are overdue"

\* ---- the state when the button is pressed ----
\* task_deadlines is read by line 169 alone: Report draws the slider values there
Init ==
    /\ n_nodes \in NodeCounts
    /\ prob \in ProbValues
    /\ n_colors \in 1 .. MaxColors
    /\ task_duration \in [ Tasks(n_nodes) -> DurationValues ]
    /\ task_deadlines = << >>
    /\ task_descriptions = [ t \in Tasks(n_nodes) |-> t + 1 ]
    /\ task_priorities \in [ Tasks(n_nodes) -> PriorityValues ]
    /\ pc = "button"
    /\ G = "None"
    /\ adj_matrix = << >>
    /\ colors = << >>
    /\ node = 0
    /\ assigned_colors = << >>
    /\ color_map = << >>
    /\ node_colors = << >>
    /\ sorted_tasks = << >>
    /\ start_times = << >>
    /\ pos = 0
    /\ gantt_data = << >>
    /\ fig = << >>
    /\ overdue_tasks = << >>
    /\ csv = NoCsv
    /\ errors = << >>

\* lines 82-88 with generate_graph (19-30), and the first lines of greedy_coloring
GenerateGraph ==
    /\ pc = "button"
    /\ IF NodesInvalid(n_nodes)
       THEN /\ errors' = errors \o << MsgNodes, MsgFailed >>
            /\ pc' = "done"
            /\ UNCHANGED << G, adj_matrix, colors >>
       ELSE IF ProbInvalid(prob)
       THEN /\ errors' = errors \o << MsgDensity, MsgFailed >>
            /\ pc' = "done"
            /\ UNCHANGED << G, adj_matrix, colors >>
       ELSE /\ \E E \in SUBSET Pairs(n_nodes) : adj_matrix' = AdjOf(n_nodes, E)
            /\ G' = "Graph"
            /\ colors' = AllUncolored(n_nodes)
            /\ pc' = "coloring"
            /\ UNCHANGED errors
    /\ UNCHANGED << n_nodes, prob, n_colors, task_duration, task_deadlines,
                    task_descriptions, task_priorities, node, assigned_colors,
                    color_map, node_colors, sorted_tasks, start_times, pos,
                    gantt_data, fig, overdue_tasks, csv >>

\* one iteration of the loop of greedy_coloring (lines 37-44)
ColorNode ==
    /\ pc = "coloring"
    /\ node < Len(colors)
    /\ colors' = [ colors EXCEPT ![node + 1] =
                     PickColor(NeighborColors(adj_matrix, colors, node)) ]
    /\ node' = node + 1
    /\ UNCHANGED << n_nodes, prob, n_colors, task_duration, task_deadlines,
                    task_descriptions, task_priorities, pc, G, adj_matrix,
                    assigned_colors, color_map, node_colors, sorted_tasks,
                    start_times, pos, gantt_data, fig, overdue_tasks, csv, errors >>

\* greedy_coloring returns; lines 91-97 and 126
Allocate ==
    /\ pc = "coloring"
    /\ node >= Len(colors)
    /\ assigned_colors' = colors
    /\ color_map' = GenerateColorMap(n_colors)
    /\ LET keys == [ i \in 1 .. n_nodes |-> FoldKey(colors[i], n_colors) ]
       IN IF \A i \in 1 .. n_nodes : keys[i] \in DOMAIN color_map'
          THEN /\ node_colors' = [ i \in 1 .. n_nodes |-> color_map'[keys[i]] ]
               /\ sorted_tasks' = Sorted(n_nodes, task_priorities)
               /\ start_times' = [ t \in Tasks(n_nodes) |-> InitialStart ]
               /\ pos' = 0
               /\ pc' = "start"
               /\ UNCHANGED errors
          ELSE /\ errors' = Append(errors, MsgAllocation)
               /\ pc' = "done"
               /\ UNCHANGED << node_colors, sorted_tasks, start_times, pos >>
    /\ UNCHANGED << n_nodes, prob, n_colors, task_duration, task_deadlines,
                    task_descriptions, task_priorities, G, adj_matrix, colors,
                    node, gantt_data, fig, overdue_tasks, csv >>

\* one iteration of the start-time loop (lines 127-130)
StartTask ==
    /\ pc = "start"
    /\ pos < Len(sorted_tasks)
    /\ LET task == sorted_tasks[pos + 1]
           dependent_tasks == Where(adj_matrix, task)
       IN start_times' =
            IF dependent_tasks # {}
            THEN [ start_times EXCEPT
                     ![task] = StartOf(dependent_tasks, start_times, task_duration) ]
            ELSE start_times
    /\ pos' = pos + 1
    /\ UNCHANGED << n_nodes, prob, n_colors, task_duration, task_deadlines,
                    task_descriptions, task_priorities, pc, G, adj_matrix,
                    colors, node, assigned_colors, color_map, node_colors,
                    sorted_tasks, gantt_data, fig, overdue_tasks, csv, errors >>

\* lines 134-141
BuildGantt ==
    /\ pc = "start"
    /\ pos >= Len(sorted_tasks)
    /\ gantt_data' = [ p \in 1 .. Len(sorted_tasks) |->
                         GanttRow(sorted_tasks[p], task_descriptions, start_times,
                                  task_duration, assigned_colors) ]
    /\ pos' = 0
    /\ pc' = "chart"
    /\ UNCHANGED << n_nodes, prob, n_colors, task_duration, task_deadlines,
                    task_descriptions, task_priorities, G, adj_matrix, colors,
                    node, assigned_colors, color_map, node_colors, sorted_tasks,
                    start_times, fig, overdue_tasks, csv, errors >>

\* the row and the colour-map key the chart loop reads for a task (lines 147-152)
BarRowIndex(task, p) == task

BarKey(color, k) == color

\* one iteration of the chart loop (lines 145-154); a missing key raises KeyError,
\* which the handler of lines 183-184 reports
AddBar ==
    /\ pc = "chart"
    /\ pos < Len(sorted_tasks)
    /\ LET task == sorted_tasks[pos + 1]
           row == gantt_data[BarRowIndex(task, pos) + 1]
           key == BarKey(assigned_colors[task + 1], n_colors)
       IN IF key \in DOMAIN color_map
          THEN /\ fig' = Append(fig, Bar(row, color_map[key]))
               /\ pos' = pos + 1
               /\ UNCHANGED << pc, errors >>
          ELSE /\ errors' = Append(errors, MsgAllocation)
               /\ pc' = "done"
               /\ UNCHANGED << fig, pos >>
    /\ UNCHANGED << n_nodes, prob, n_colors, task_duration, task_deadlines,
                    task_descriptions, task_priorities, G, adj_matrix, colors,
                    node, assigned_colors, color_map, node_colors, sorted_tasks,
                    start_times, gantt_data, overdue_tasks, csv >>

\* lines 166-181: the overdue list and the export
Report ==
    /\ pc = "chart"
    /\ pos >= Len(sorted_tasks)
    /\ task_deadlines' \in [ Tasks(n_nodes) -> DeadlineValues ]
    /\ LET late == Overdue(sorted_tasks, start_times, task_duration, task_deadlines')
       IN /\ overdue_tasks' = [ i \in 1 .. Len(late) |-> OverdueLabel(late[i]) ]
          /\ errors' = IF late # << >> THEN Append(errors, MsgOverdue) ELSE errors
    /\ csv' = ToCsv(gantt_data)
    /\ pc' = "done"
    /\ UNCHANGED << n_nodes, prob, n_colors, task_duration,
                    task_descriptions, task_priorities, G, adj_matrix, colors,
                    node, assigned_colors, color_map, node_colors, sorted_tasks,
                    start_times, pos, gantt_data, fig >>

Next ==
    \/ GenerateGraph
    \/ ColorNode
    \/ Allocate
    \/ StartTask
    \/ BuildGantt
    \/ AddBar
    \/ Report

Spec == Init /\ [][Next]_vars

\* ======================= properties =======================
Adjacent(i, j) == adj_matrix[i][j] = 1

Degree(i) == Cardinality({ j \in Tasks(n_nodes) : Adjacent(i, j) })

\* greedy_coloring has returned its assignment
Returned == G = "Graph" /\ pc \notin {"button", "coloring"}

Color(i) == assigned_colors[i + 1]

\* the start-time pass is over and the rows are built
Scheduled == G = "Graph" /\ gantt_data # << >>

\* the Gantt row of task t
RowOf(t) == gantt_data[CHOOSE p \in 1 .. Len(sorted_tasks) : sorted_tasks[p] = t]

\* C1: once greedy_coloring has returned, every task of a graph with n >= 1 tasks
\* has a colour >= 0, and the two ends of every edge have different colours.
ProperColoring ==
    Returned =>
        /\ n_nodes >= 1
        /\ Len(assigned_colors) = n_nodes
        /\ \A i \in Tasks(n_nodes) : Color(i) >= 0
        /\ \A i, j \in Tasks(n_nodes) : Adjacent(i, j) => Color(i) # Color(j)

\* a triangle is coloured with three colours
ProperColoringWitness ==
    /\ Returned
    /\ n_nodes = 3
    /\ \A i, j \in Tasks(n_nodes) : i # j => Adjacent(i, j)
    /\ assigned_colors = << 0, 1, 2 >>

\* C2: no task's colour exceeds its own degree, so the largest colour used
\* never exceeds the maximum degree of the graph.
ColorBound ==
    Returned =>
        /\ \A i \in Tasks(n_nodes) : Color(i) <= Degree(i)
        /\ \A i \in Tasks(n_nodes) : \E j \in Tasks(n_nodes) : Color(i) <= Degree(j)

\* the bound is met: some task of positive degree has colour = degree = max degree
ColorBoundWitness ==
    /\ Returned
    /\ \E i \in Tasks(n_nodes) :
          /\ Degree(i) >= 2
          /\ Color(i) = Degree(i)
          /\ \A j \in Tasks(n_nodes) : Degree(j) <= Degree(i)

\* the colours of the neighbours of i that have a smaller index
LowerColors(cols, i) == { cols[j + 1] : j \in { x \in Tasks(n_nodes) : x < i /\ Adjacent(i, x) } }

\* C8: tasks are coloured in increasing index order; task i gets the smallest
\* non-negative integer that no neighbour of smaller index has (0 when it has
\* none), whatever its neighbours of larger index; the path 0-1-2 gets 0, 1, 0.
GreedyRule ==
    /\ (pc = "coloring") =>
          /\ \A i \in Tasks(n_nodes) : (i >= node) <=> (colors[i + 1] = Uncolored)
          /\ \A i \in Tasks(n_nodes) : i < node =>
                /\ colors[i + 1] >= 0
                /\ colors[i + 1] \notin LowerColors(colors, i)
                /\ \A c \in 0 .. (colors[i + 1] - 1) : c \in LowerColors(colors, i)
    /\ Returned =>
          /\ \A i \in Tasks(n_nodes) :
                /\ Color(i) >= 0
                /\ Color(i) \notin LowerColors(assigned_colors, i)
                /\ \A c \in 0 .. (Color(i) - 1) : c \in LowerColors(assigned_colors, i)
          /\ ( /\ n_nodes = 3
               /\ Adjacent(0, 1) /\ Adjacent(1, 2) /\ ~Adjacent(0, 2) )
             => assigned_colors = << 0, 1, 0 >>

\* the path 0-1-2 has been coloured: task 2 reuses the colour of task 0 although
\* task 1, between them, has a neighbour of larger index
GreedyRuleWitness ==
    /\ Returned
    /\ n_nodes = 3
    /\ Adjacent(0, 1) /\ Adjacent(1, 2) /\ ~Adjacent(0, 2)
    /\ assigned_colors = << 0, 1, 0 >>

\* C6: with fewer than one task the request fails with the node-count error:
\* no graph, no colour assignment (not even an empty one), no schedule.
InvalidCountRejected ==
    (n_nodes < 1 /\ pc # "button") =>
        /\ pc = "done"
        /\ Len(errors) >= 1 /\ errors[1] = MsgNodes
        /\ G = "None"
        /\ colors = << >> /\ assigned_colors = << >> /\ node = 0
        /\ sorted_tasks = << >> /\ start_times = << >>
        /\ gantt_data = << >> /\ fig = << >> /\ csv = NoCsv

InvalidCountWitness ==
    /\ n_nodes = 0
    /\ pc = "done"
    /\ errors = << MsgNodes, MsgFailed >>

\* the tasks the start-time loop has visited so far
Visited == { sorted_tasks[q] : q \in 1 .. pos }

\* C9: all starts begin at 0; the tasks are visited once each in priority order;
\* visiting a task without neighbours leaves its start at 0, visiting any other
\* sets it to the largest start + duration among its neighbours as they stand,
\* an unvisited neighbour counting 0 + duration; a visited task's start is final.
StartRuleStep ==
    /\ (pc = "start" /\ pos = 0) => \A t \in Tasks(n_nodes) : start_times[t] = 0
    /\ (pc = "start" /\ pos < Len(sorted_tasks)) =>
          LET t == sorted_tasks[pos + 1]
              nb == { d \in Tasks(n_nodes) : Adjacent(t, d) }
          IN /\ t \notin Visited
             /\ \A q \in 1 .. pos : task_priorities[sorted_tasks[q]] <= task_priorities[t]
             /\ \A d \in Tasks(n_nodes) \ Visited : start_times[d] = 0
             /\ nb = {} => start_times'[t] = 0
             /\ nb # {} =>
                   /\ \A d \in nb : start_times'[t] >= start_times[d] + task_duration[d]
                   /\ \E d \in nb : start_times'[t] = start_times[d] + task_duration[d]
             /\ \A u \in Tasks(n_nodes) \ {t} : start_times'[u] = start_times[u]
             /\ pos' = pos + 1
    /\ (start_times # << >> /\ (pc # "start" \/ pos >= Len(sorted_tasks))) =>
          start_times' = start_times

StartRule == [][StartRuleStep]_vars

\* the first task visited had two neighbours, both still unvisited (start 0) and
\* of different durations, and took the larger duration as its start
StartRuleWitness ==
    /\ pc = "start"
    /\ pos = 1
    /\ \E d, e \in Tasks(n_nodes) :
          /\ Adjacent(sorted_tasks[1], d) /\ Adjacent(sorted_tasks[1], e)
          /\ task_duration[d] = 1 /\ task_duration[e] = 2
    /\ start_times[sorted_tasks[1]] = 2

\* C10: in the final schedule the two tasks of an edge never overlap: the one
\* visited later starts at or after the finish of the one visited earlier, and
\* every task with a neighbour starts at 1 or later.
NoOverlap ==
    Scheduled =>
        /\ \A p, q \in 1 .. Len(gantt_data) :
              (p < q /\ Adjacent(sorted_tasks[p], sorted_tasks[q])) =>
                  /\ gantt_data[q].Start >= gantt_data[p].Finish
                  /\ gantt_data[p].Finish = start_times[sorted_tasks[p]]
                                              + task_duration[sorted_tasks[p]]
                  /\ gantt_data[q].Start = start_times[sorted_tasks[q]]
        /\ \A t \in Tasks(n_nodes) :
              (\E d \in Tasks(n_nodes) : Adjacent(t, d)) => RowOf(t).Start >= 1

\* an edge whose later task starts exactly when the earlier one finishes
NoOverlapWitness ==
    /\ Scheduled
    /\ \E p, q \in 1 .. Len(gantt_data) :
          /\ p < q
          /\ Adjacent(sorted_tasks[p], sorted_tasks[q])
          /\ gantt_data[p].Start >= 1
          /\ gantt_data[q].Start = gantt_data[p].Finish

\* two tasks joined by an edge, task 0 first in priority order
Scenario3 ==
    /\ Scheduled
    /\ n_nodes = 2
    /\ Adjacent(0, 1)
    /\ task_priorities[0] <= task_priorities[1]

\* C3 as stated: task 0 starts at 0, task 1 at duration(0), and task 1 finishes
\* at duration(0) + duration(1).
Scenario3AsStated ==
    Scenario3 =>
        /\ RowOf(0).Start = 0
        /\ RowOf(1).Start = task_duration[0]
        /\ RowOf(1).Finish = task_duration[0] + task_duration[1]

\* C3 amended: start(1) = start(0) + duration(0) where start(0) = duration(1),
\* task 1 being an unvisited neighbour of task 0: start(1) = duration(1) +
\* duration(0) and finish(1) = duration(0) + 2 * duration(1).
Scenario3Amended ==
    Scenario3 =>
        /\ sorted_tasks = << 0, 1 >>
        /\ RowOf(0).Start = task_duration[1]
        /\ RowOf(1).Start = RowOf(0).Start + task_duration[0]
        /\ RowOf(1).Start = task_duration[1] + task_duration[0]
        /\ RowOf(1).Finish = task_duration[0] + 2 * task_duration[1]

\* duration = [2, 2], priority = [1, 2]: start(0) = 2, start(1) = 4, finish(1) = 6
Scenario3Witness ==
    /\ Scenario3
    /\ task_duration = [ t \in Tasks(2) |-> 2 ]
    /\ task_priorities[0] = 1 /\ task_priorities[1] = 2
    /\ RowOf(0).Start = 2
    /\ RowOf(1).Start = 4
    /\ RowOf(1).Finish = 6

\* the key a task's colour folds to, and the palette entry it selects
Folded(t) == assigned_colors[t + 1] % n_colors

\* C7: every time a task's colour is mapped to a display resource the key is
\* colour mod k, in 0 .. k-1, so no lookup fails and the run ends with the full
\* schedule: one bar per task and the exported rows.
DisplayFold ==
    Returned =>
        /\ MsgAllocation \notin { errors[e] : e \in 1 .. Len(errors) }
        /\ \A i \in 1 .. Len(node_colors) : node_colors[i] = color_map[Folded(i - 1)]
        /\ \A p \in 1 .. Len(fig) : fig[p].color = color_map[Folded(sorted_tasks[p])]
        /\ pc = "done" =>
              /\ Len(gantt_data) = n_nodes
              /\ Len(fig) = n_nodes
              /\ csv = ToCsv(gantt_data)

\* the deadlines the sliders may hold: the ones read, or any while none is read
PossibleDeadlines ==
    IF DOMAIN task_deadlines = Tasks(n_nodes)
    THEN { task_deadlines }
    ELSE [ Tasks(n_nodes) -> DeadlineValues ]

Reported == { overdue_tasks[i] : i \in 1 .. Len(overdue_tasks) }

\* C4: when the run is over, a task is reported overdue exactly when its
\* start + duration exceeds its deadline (not when they are equal), overdue
\* tasks do not abort the run, and the reported list is in priority order.
OverdueCorrect ==
    (pc = "done" /\ G = "Graph") =>
        /\ \A dl \in PossibleDeadlines : \A t \in Tasks(n_nodes) :
              (OverdueLabel(t) \in Reported) <=>
                  (start_times[t] + task_duration[t] > dl[t])
        /\ \A i, j \in 1 .. Len(overdue_tasks) : i < j =>
              \E p, q \in 1 .. Len(sorted_tasks) :
                  /\ p < q
                  /\ overdue_tasks[i] = OverdueLabel(sorted_tasks[p])
                  /\ overdue_tasks[j] = OverdueLabel(sorted_tasks[q])
        /\ csv = ToCsv(gantt_data)

\* C5: the schedule entries are all n tasks in ascending priority, equal
\* priorities in increasing index order, and the entry at position p, as built
\* and as drawn, is the entry of the p-th task of that order.
PriorityOrderAligned ==
    Scheduled =>
        /\ Len(gantt_data) = n_nodes
        /\ { sorted_tasks[p] : p \in 1 .. Len(sorted_tasks) } = Tasks(n_nodes)
        /\ \A p, q \in 1 .. Len(sorted_tasks) : p < q =>
              \/ task_priorities[sorted_tasks[p]] < task_priorities[sorted_tasks[q]]
              \/ /\ task_priorities[sorted_tasks[p]] = task_priorities[sorted_tasks[q]]
                 /\ sorted_tasks[p] < sorted_tasks[q]
        /\ \A p \in 1 .. Len(gantt_data) :
              gantt_data[p] = GanttRow(sorted_tasks[p], task_descriptions, start_times,
                                       task_duration, assigned_colors)
        /\ \A p \in 1 .. Len(fig) :
              /\ fig[p].y = task_descriptions[sorted_tasks[p]]
              /\ fig[p].base = start_times[sorted_tasks[p]]
              /\ fig[p].x = task_duration[sorted_tasks[p]]
              /\ fig[p].name = assigned_colors[sorted_tasks[p] + 1] + 1

====
